---- MODULE Spec2Model ----
(***************************************************************************)
(* Model of stream.go (package irc): Conn, Decoder and Encoder over one    *)
(* io.ReadWriteCloser.                                                     *)
(*                                                                         *)
(* Threads are goroutines sharing one *Conn.  Every statement of Decode,   *)
(* Write, Encode and Close that touches shared state is one step, so that  *)
(* all interleavings the Go scheduler allows are explored.  The transport  *)
(* (rwc) and bufio.Reader are libraries: they are modelled by their        *)
(* documented behaviour, at the call sites of stream.go.                   *)
(***************************************************************************)
EXTENDS Integers, Sequences, FiniteSets, TLC

\* ---------------------------------------------------------------- bounds
NumThreads == 3
MaxCalls == 3
MaxLen == 3
MaxFaults == 1
MaxLiveLen == 1

\* ------------------------------------------------------------- constants
\* const delim byte = '\n'
delim == "\n"

Nil == "nil"
EOF == "EOF"
ErrClosed == "ErrClosed"
ErrIO == "ErrIO"
\* a byte value that occurs neither in the stream nor in a payload
Junk == "?"

Threads == 1..NumThreads
Alphabet == {"a", delim}

RECURSIVE SeqsUpTo(_, _)
SeqsUpTo(S, n) ==
    IF n = 0 THEN {<<>>}
    ELSE LET shorter == SeqsUpTo(S, n - 1)
         IN  shorter \cup {Append(s, b) : s \in {x \in shorter : Len(x) = n - 1}, b \in S}

\* the byte streams the peer may send
Inputs == SeqsUpTo(Alphabet, MaxLen)

\* ------------------------------------------------------ external codec
\* ParseMessage(line) and Message.Bytes() live outside stream.go; a Message
\* is kept as the raw line it was parsed from.
ParseMessage(s) == [nil |-> FALSE, raw |-> s]
\* the nil *Message
NilMessage == [nil |-> TRUE, raw |-> <<>>]
Bytes(m) == m.raw

\* what callers pass to Write and Encode
Payloads == {<<>>, <<"x", delim>>}
Messages == {ParseMessage(<<"y", delim>>)}

\* ------------------------------------------------------------- strings
\* A Go string is a (pointer, length) header.  ptr names the backing array:
\* its bytes s and, as bookkeeping, the stream offset from at which they
\* were read.  The empty string has the nil pointer.
EmptyPtr == [from |-> 0, s |-> <<>>]
EmptyString == [ptr |-> EmptyPtr, len |-> 0]
NewString(from, s) ==
    IF s = <<>> THEN EmptyString
    ELSE [ptr |-> [from |-> from, s |-> s], len |-> Len(s)]

\* the values of a byte that lies beyond the backing array: whatever the
\* allocator has there
StrayBytes == Alphabet \cup {Junk}

\* the byte sequences a read of the header (ptr, len) can yield.  A header
\* torn by a racing store can have a length beyond the backing array: the
\* bytes beyond are arbitrary, and there are none under the nil pointer.
StringAt(ptr, len) ==
    IF len <= Len(ptr.s) THEN {SubSeq(ptr.s, 1, len)}
    ELSE IF ptr = EmptyPtr THEN {}
    ELSE {ptr.s \o x : x \in [1..(len - Len(ptr.s)) -> StrayBytes]}

\* a read of the header (ptr, len) can fault: it reaches beyond the backing
\* array, or dereferences the nil pointer
MayFault(ptr, len) == len > Len(ptr.s)

\* the error of a failed net.Dial
ErrDial == "ErrDial"
\* the transport net.Dial establishes, and the nil net.Conn of a failed one
Rwc == "rwc"
NilRwc == "nil"
\* the outcomes of net.Dial("tcp", addr)
NetDial == {[c |-> Rwc, err |-> Nil], [c |-> NilRwc, err |-> ErrDial]}

\* the nil *Conn
NilConn == [nil |-> TRUE, writer |-> NilRwc, reader |-> NilRwc, conn |-> NilRwc]
\* func NewConn(rwc): the Encoder writes to rwc, the Decoder's bufio.Reader
\* reads from rwc, Close closes rwc
NewConn(rwc) == [nil |-> FALSE, writer |-> rwc, reader |-> rwc, conn |-> rwc]

VARIABLES
    conn,       \* the *Conn the caller holds
    attempts,   \* number of times net.Dial was invoked
    dialErr,    \* the error Dial returned
    input,      \* bytes the peer sends, fixed for a run
    ends,       \* whether the peer ends the stream after input
    rpos,       \* bytes of input the transport has handed to Read so far
    closed,     \* the transport has been closed
    closeCalls, \* number of times rwc.Close() was invoked
    faults,     \* I/O errors the transport has produced so far
    wire,       \* bytes the transport accepted from Write, each with its call
    buf,        \* bufio.Reader: buffered, unread bytes
    berr,       \* bufio.Reader: pending read error (b.err)
    decMu,      \* Decoder.mu is locked
    encMu,      \* Encoder.mu is locked
    line,       \* Decoder.line
    pc,         \* per goroutine: position in the current call
    loc,        \* per goroutine: locals of the current call
    ncalls,     \* calls issued so far
    wseq,       \* calls in the order they acquired Encoder.mu
    log         \* returned calls with their results, by call

vars == <<conn, attempts, dialErr, input, ends, rpos, closed, closeCalls, faults, wire, buf, berr,
          decMu, encMu, line, pc, loc, ncalls, wseq, log>>

dialVars == <<conn, attempts, dialErr>>
transportVars == <<input, ends, rpos, closed, closeCalls, faults, wire>>
readerVars == <<buf, berr, line>>

IdleLoc == [call |-> 0, op |-> "", msg |-> NilMessage, p |-> <<>>, n |-> 0,
            err |-> Nil,
            rs |-> EmptyPtr, fills |-> 0, last |-> "none",
            ld |-> [f |-> "", ptr |-> EmptyPtr, len |-> 0],
            late |-> FALSE, pend |-> FALSE]

\* a transport nothing was read from or written to, and the zero values of
\* Encoder and Decoder: both mutexes unlocked, Decoder.line empty, the
\* bufio.Reader empty
Fresh ==
    /\ attempts = 0
    /\ dialErr = Nil
    /\ input \in Inputs
    /\ ends \in BOOLEAN
    /\ rpos = 0
    /\ closed = FALSE
    /\ closeCalls = 0
    /\ faults = 0
    /\ wire = <<>>
    /\ buf = <<>>
    /\ berr = Nil
    /\ decMu = FALSE
    /\ encMu = FALSE
    /\ line = EmptyString
    /\ pc = [t \in Threads |-> "idle"]
    /\ loc = [t \in Threads |-> IdleLoc]
    /\ ncalls = 0
    /\ wseq = <<>>
    /\ log = <<>>

\* NewConn(rwc): one Encoder and one Decoder over the same rwc
Init == Fresh /\ conn = NewConn(Rwc)

\* ------------------------------------------------------------ helpers
HasDelim(s) == \E i \in 1..Len(s) : s[i] = delim
FirstDelim(s) == CHOOSE i \in 1..Len(s) : s[i] = delim /\ \A j \in 1..(i - 1) : s[j] # delim
Remaining == Len(input) - rpos
\* stream offset of the first buffered byte
BufFrom == rpos - Len(buf)

\* no goroutine has panicked: an unrecovered panic ends the process
Alive == \A u \in Threads : pc[u] # "panic"

\* goroutine u has issued a call
Used(u) == loc[u].call # 0 \/ \E c \in DOMAIN log : log[c].t = u

\* Goroutines are interchangeable: they are numbered in the order of their
\* first call.
MayCall(t) ==
    /\ Alive
    /\ conn # NilConn
    /\ pc[t] = "idle"
    /\ ncalls < MaxCalls
    /\ IF t = 1 THEN TRUE ELSE Used(t - 1)

\* a call starts
Begin(t, op, m, p, stage) ==
    /\ MayCall(t)
    /\ ncalls' = ncalls + 1
    /\ loc' = [loc EXCEPT ![t] = [IdleLoc EXCEPT !.call = ncalls + 1, !.op = op,
                                                 !.msg = m, !.p = p,
                                                 !.late = closed]]
    /\ pc' = [pc EXCEPT ![t] = stage]

\* a call returns
Return(t, m, err, n, got) ==
    /\ log' = log @@ (loc[t].call :>
                 [t |-> t, op |-> loc[t].op, msg |-> loc[t].msg,
                  p |-> loc[t].p, m |-> m,
                  err |-> err, n |-> n, got |-> got, rs |-> loc[t].rs,
                  rserr |-> loc[t].err, fills |-> loc[t].fills,
                  last |-> loc[t].last, late |-> loc[t].late,
                  pend |-> loc[t].pend])
    /\ loc' = [loc EXCEPT ![t] = IdleLoc]
    /\ pc' = [pc EXCEPT ![t] = "idle"]

\* ------------------------------------------------------------ transport
\* rwc.Read as bufio's fill() sees it: the outcomes (bytes handed over,
\* error) the transport can produce now.  No outcome: the read blocks.
\* Data arrives in chunks of any size; an error may come with the last bytes
\* or alone; a closed transport fails every read.
ReadOutcomes ==
    IF closed THEN {[n |-> 0, err |-> ErrClosed]}
    ELSE {[n |-> k, err |-> Nil] : k \in 1..Remaining}
         \cup (IF ends THEN {[n |-> Remaining, err |-> EOF]} ELSE {})
         \cup (IF faults < MaxFaults THEN {[n |-> 0, err |-> ErrIO]} ELSE {})

\* ------------------------------------------------------------- Decoder
\* dec.mu.Lock() can proceed
DecMuFree == ~decMu

\* ReadString that leaves the returned line in the buffer
ReadStringNoAdvance(b, e) ==
    IF HasDelim(b)
    THEN [s |-> SubSeq(b, 1, FirstDelim(b)), err |-> Nil, rest |-> b, berr |-> e]
    ELSE [s |-> b, err |-> e, rest |-> <<>>, berr |-> Nil]

\* ReadString that leaves the partial bytes in the buffer when a read fails
ReadStringKeepPartial(b, e) ==
    IF HasDelim(b)
    THEN [s |-> SubSeq(b, 1, FirstDelim(b)), err |-> Nil,
          rest |-> SubSeq(b, FirstDelim(b) + 1, Len(b)), berr |-> e]
    ELSE [s |-> b, err |-> e, rest |-> b, berr |-> Nil]

\* bufio.Reader.ReadString(delim) once it can return, on buffered bytes b
\* and pending error e: the bytes through the first delimiter, or, when a
\* read failed before a delimiter was found, all bytes read so far together
\* with that error (which is then cleared).
ReadString(b, e) ==
    IF HasDelim(b)
    THEN [s |-> SubSeq(b, 1, FirstDelim(b)), err |-> Nil,
          rest |-> SubSeq(b, FirstDelim(b) + 1, Len(b)), berr |-> e]
    ELSE [s |-> b, err |-> e, rest |-> <<>>, berr |-> Nil]

\* ReadString has to read from the transport: no delimiter buffered and no
\* error pending
MustFill(b, e) == ~HasDelim(b) /\ e = Nil

\* Decode that returns on error before dec.mu.Unlock()
DecMuHeldOnError(err) == err # Nil

\* whether dec.mu is locked after the read section of Decode, given the
\* error of the read
DecMuAfterRead(err) == FALSE

\* Decode that takes the end of the stream for the end of a line
DecodeResultEOFAsLine(err, str) ==
    IF err # Nil /\ err # EOF THEN [m |-> NilMessage, err |-> err]
    ELSE [m |-> ParseMessage(str), err |-> Nil]

\* what Decode returns, given the error of its read and the string it
\* found in dec.line
DecodeResult(err, str) ==
    IF err # Nil THEN [m |-> NilMessage, err |-> err]
    ELSE [m |-> ParseMessage(str), err |-> Nil]

\* func (dec *Decoder) Decode(): the call is issued
CallDecode(t) ==
    /\ Begin(t, "Decode", NilMessage, <<>>, "d_lock")
    /\ UNCHANGED <<dialVars, transportVars, readerVars, decMu, encMu, wseq, log>>

\* dec.mu.Lock()
DecLock(t) ==
    /\ Alive
    /\ pc[t] = "d_lock"
    /\ DecMuFree
    /\ decMu' = TRUE
    /\ pc' = [pc EXCEPT ![t] = "d_read"]
    /\ UNCHANGED <<dialVars, transportVars, readerVars, encMu, loc, ncalls, wseq, log>>

\* inside dec.reader.ReadString(delim): one rwc.Read into the buffer
Fill(t) ==
    /\ Alive
    /\ pc[t] = "d_read"
    /\ MustFill(buf, berr)
    /\ \E o \in ReadOutcomes :
        /\ buf' = buf \o SubSeq(input, rpos + 1, rpos + o.n)
        /\ rpos' = rpos + o.n
        /\ berr' = o.err
        /\ faults' = IF o.err = ErrIO THEN faults + 1 ELSE faults
        /\ loc' = [loc EXCEPT ![t].fills = @ + 1, ![t].last = o.err]
    /\ UNCHANGED <<dialVars, input, ends, closed, closeCalls, wire, line, decMu, encMu,
                   pc, ncalls, wseq, log>>

\* Decode that closes the transport when the read failed
ClosedOnReadError(was, err) == was \/ err # Nil
\* whether the transport is closed after Decode's ReadString returned err,
\* given whether it was closed before: Decode never closes it
ClosedAfterDecode(was, err) == was

\* dec.line, err = dec.reader.ReadString(delim); dec.mu.Unlock()
ReadStringReturn(t) ==
    /\ Alive
    /\ pc[t] = "d_read"
    /\ ~MustFill(buf, berr)
    /\ LET r == ReadString(buf, berr)
           str == NewString(BufFrom, r.s)
       IN  /\ buf' = r.rest
           /\ berr' = r.berr
           /\ line' = str
           /\ decMu' = DecMuAfterRead(r.err)
           /\ closed' = ClosedAfterDecode(closed, r.err)
           /\ loc' = [loc EXCEPT ![t].err = r.err, ![t].rs = str.ptr]
           /\ pc' = [pc EXCEPT ![t] = "d_chk"]
    /\ UNCHANGED <<dialVars, input, ends, rpos, closeCalls, faults, wire,
                   encMu, ncalls, wseq, log>>

\* if err != nil { return nil, err }
DecReturnErr(t) ==
    /\ Alive
    /\ pc[t] = "d_chk"
    /\ loc[t].err # Nil
    /\ LET r == DecodeResult(loc[t].err, <<>>)
       IN  Return(t, r.m, r.err, 0, EmptyString)
    /\ UNCHANGED <<dialVars, transportVars, readerVars, decMu, encMu, ncalls, wseq>>

\* ParseMessage(dec.line): dec.line is read after dec.mu was unlocked, so
\* the read races with the store of a concurrent Decode.  The two words of
\* the string header are loaded one after the other, in either order.
DecLoad1(t) ==
    /\ Alive
    /\ pc[t] = "d_chk"
    /\ loc[t].err = Nil
    /\ \E f \in {"ptr", "len"} :
        loc' = [loc EXCEPT ![t].ld = [f |-> f, ptr |-> line.ptr, len |-> line.len]]
    /\ pc' = [pc EXCEPT ![t] = "d_ld"]
    /\ UNCHANGED <<dialVars, transportVars, readerVars, decMu, encMu, ncalls, wseq, log>>

\* the second word of dec.line is loaded; return ParseMessage(dec.line), nil.
\* ParseMessage reads the bytes of the string: with a torn header that
\* reaches beyond the backing array it reads stray bytes or faults, and the
\* fault is a panic that nothing recovers.
DecLoad2(t) ==
    /\ Alive
    /\ pc[t] = "d_ld"
    /\ LET got == IF loc[t].ld.f = "ptr"
                  THEN [ptr |-> loc[t].ld.ptr, len |-> line.len]
                  ELSE [ptr |-> line.ptr, len |-> loc[t].ld.len]
       IN  \/ \E str \in StringAt(got.ptr, got.len) :
                LET r == DecodeResult(loc[t].err, str)
                IN  Return(t, r.m, r.err, 0, got)
           \/ /\ MayFault(got.ptr, got.len)
              /\ pc' = [pc EXCEPT ![t] = "panic"]
              /\ UNCHANGED <<loc, log>>
    /\ UNCHANGED <<dialVars, transportVars, readerVars, decMu, encMu, ncalls, wseq>>

\* ------------------------------------------------------------- Encoder
\* Write that does not wait for enc.mu
EncMuFreeNoLock == TRUE

\* Encoder and Decoder sharing one mutex
EncMuFreeShared == ~encMu /\ ~decMu

\* enc.mu.Lock() can proceed
EncMuFree == ~encMu

\* Write that sends a lone delimiter for an empty payload
HandedDelimForEmpty(p) == IF p = <<>> THEN <<delim>> ELSE p

\* Write that appends the delimiter to every payload
HandedAppendDelim(p) == Append(p, delim)

\* the bytes enc.writer.Write receives when Write is called with p
Handed(p) == p

\* Write that returns on error before enc.mu.Unlock()
EncMuHeldOnError(err) == err # Nil

\* whether enc.mu is locked after enc.writer.Write returned err
EncMuAfterWrite(err) == FALSE

\* Write that reports no error once some bytes were taken
WriteReturnShortOk(n, err) == [n |-> n, err |-> IF n > 0 THEN Nil ELSE err]

\* what Write returns, given what enc.writer.Write returned; Encode keeps
\* the error and drops n
WriteReturn(n, err) == [n |-> n, err |-> err]

\* func (enc *Encoder) Write(p []byte): the call is issued
CallWrite(t) ==
    /\ \E p \in Payloads : Begin(t, "Write", NilMessage, p, "w_lock")
    /\ UNCHANGED <<dialVars, transportVars, readerVars, decMu, encMu, wseq, log>>

\* func (enc *Encoder) Encode(m *Message): enc.Write(m.Bytes())
CallEncode(t) ==
    /\ \E m \in Messages : Begin(t, "Encode", m, Bytes(m), "w_lock")
    /\ UNCHANGED <<dialVars, transportVars, readerVars, decMu, encMu, wseq, log>>

\* enc.mu.Lock()
WLock(t) ==
    /\ Alive
    /\ pc[t] = "w_lock"
    /\ EncMuFree
    /\ encMu' = TRUE
    /\ wseq' = Append(wseq, loc[t].call)
    /\ pc' = [pc EXCEPT ![t] = "w_write"]
    /\ UNCHANGED <<dialVars, transportVars, readerVars, decMu, loc, ncalls, log>>

\* inside enc.writer.Write(p): the transport takes the next byte of p
WriteByte(t) ==
    /\ Alive
    /\ pc[t] = "w_write"
    /\ ~closed
    /\ loc[t].n < Len(Handed(loc[t].p))
    /\ wire' = Append(wire, [call |-> loc[t].call,
                             b |-> Handed(loc[t].p)[loc[t].n + 1]])
    /\ loc' = [loc EXCEPT ![t].n = @ + 1]
    /\ UNCHANGED <<dialVars, input, ends, rpos, closed, closeCalls, faults, readerVars,
                   decMu, encMu, pc, ncalls, wseq, log>>

\* n, err = enc.writer.Write(p) returns len(p), nil; enc.mu.Unlock(); return
WriteDone(t) ==
    /\ Alive
    /\ pc[t] = "w_write"
    /\ loc[t].n = Len(Handed(loc[t].p))
    /\ ~(closed /\ loc[t].n = 0)
    /\ encMu' = EncMuAfterWrite(Nil)
    /\ LET r == WriteReturn(loc[t].n, Nil)
       IN  Return(t, NilMessage, r.err, r.n, EmptyString)
    /\ UNCHANGED <<dialVars, transportVars, readerVars, decMu, ncalls, wseq>>

\* n, err = enc.writer.Write(p) stops early: the transport is closed, or
\* the write fails; enc.mu.Unlock(); return
WriteFail(t) ==
    /\ Alive
    /\ pc[t] = "w_write"
    /\ loc[t].n < Len(Handed(loc[t].p)) \/ Len(Handed(loc[t].p)) = 0
    /\ \/ /\ closed
          /\ LET r == WriteReturn(loc[t].n, ErrClosed)
             IN  Return(t, NilMessage, r.err, r.n, EmptyString)
          /\ faults' = faults
          /\ encMu' = EncMuAfterWrite(ErrClosed)
       \/ /\ ~closed
          /\ faults < MaxFaults
          /\ LET r == WriteReturn(loc[t].n, ErrIO)
             IN  Return(t, NilMessage, r.err, r.n, EmptyString)
          /\ faults' = faults + 1
          /\ encMu' = EncMuAfterWrite(ErrIO)
    /\ UNCHANGED <<dialVars, input, ends, rpos, closed, closeCalls, wire, readerVars,
                   decMu, ncalls, wseq>>

\* ---------------------------------------------------------------- Conn
\* a Decode that is inside the transport's Read, holding dec.mu
BlockedInRead(u) == pc[u] = "d_read" /\ MustFill(buf, berr)

\* the Decode calls that are pending when Close is called while one of
\* them is blocked in the read: that one and those waiting for dec.mu
PendingDecodes ==
    IF \E u \in Threads : BlockedInRead(u)
    THEN {u \in Threads : pc[u] \in {"d_lock", "d_read"}}
    ELSE {}

\* the number of rwc.Close() invocations after one more Conn.Close()
CloseInvocations(n) == n + 1

\* Close that reopens a transport closed before
ClosedToggled(was) == ~was
\* whether the transport is closed after c.conn.Close(), given whether it
\* was closed before
ClosedAfterClose(was) == TRUE

\* Close that waits for the Decoder's and the Encoder's mutex
CloseWaitsForLocks == ~decMu /\ ~encMu
\* whether Close can go on to c.conn.Close(): it takes no lock
CloseMayProceed == TRUE

\* func (c *Conn) Close() error { return c.conn.Close() }
\* A transport closed before answers the repeated close with an error.
Close(t) ==
    /\ MayCall(t)
    /\ CloseMayProceed
    /\ ncalls' = ncalls + 1
    /\ closeCalls' = CloseInvocations(closeCalls)
    /\ closed' = ClosedAfterClose(closed)
    /\ loc' = [u \in Threads |->
                IF u \in PendingDecodes THEN [loc[u] EXCEPT !.pend = TRUE] ELSE loc[u]]
    /\ log' = log @@ ((ncalls + 1) :>
                 [t |-> t, op |-> "Close", msg |-> NilMessage,
                  p |-> <<>>, m |-> NilMessage,
                  err |-> IF closed THEN ErrClosed ELSE Nil, n |-> 0,
                  got |-> EmptyString, rs |-> EmptyPtr, rserr |-> Nil,
                  fills |-> 0, last |-> "none", late |-> closed,
                  pend |-> FALSE])
    /\ UNCHANGED <<dialVars, input, ends, rpos, faults, wire, readerVars, decMu, encMu,
                   pc, wseq>>

\* what Dial returns when net.Dial failed: a Conn all the same
DialResultConnOnError(c, err) == [conn |-> NewConn(c), err |-> err]
\* if err != nil { return nil, err }; return NewConn(c), nil
DialResult(c, err) ==
    IF err # Nil THEN [conn |-> NilConn, err |-> err]
    ELSE [conn |-> NewConn(c), err |-> Nil]

\* the number of net.Dial invocations after one more Dial
DialAttempts(n) == n + 1

\* func Dial(addr string) (*Conn, error)
Dial ==
    /\ conn = NilConn
    /\ attempts = 0
    /\ \E o \in NetDial :
        LET r == DialResult(o.c, o.err)
        IN  /\ conn' = r.conn
            /\ dialErr' = r.err
    /\ attempts' = DialAttempts(attempts)
    /\ UNCHANGED <<transportVars, readerVars, decMu, encMu, pc, loc, ncalls,
                   wseq, log>>

\* ------------------------------------------------------- specification
DecodeStep(t) ==
    \/ DecLock(t)
    \/ Fill(t)
    \/ ReadStringReturn(t)
    \/ DecReturnErr(t)
    \/ DecLoad1(t)
    \/ DecLoad2(t)

WriteStep(t) ==
    \/ WLock(t)
    \/ WriteByte(t)
    \/ WriteDone(t)
    \/ WriteFail(t)

Step(t) ==
    \/ CallDecode(t)
    \/ CallWrite(t)
    \/ CallEncode(t)
    \/ Close(t)
    \/ DecodeStep(t)
    \/ WriteStep(t)

Next == \E t \in Threads : Step(t)

Spec == Init /\ [][Next]_vars

\* the transport's Read returns: bytes have arrived, the stream has ended,
\* or the transport is closed.  On an open connection with nothing to
\* deliver the read may stay blocked for ever.
ReadReturns == closed \/ Remaining > 0 \/ ends

\* the steps of Decode that come about by themselves: those of the goroutine
\* when it is runnable (the Go scheduler is fair, and sync.Mutex hands a
\* waiting goroutine the lock), and the return of a Read that the transport
\* does not leave blocked
DecodeRuns(t) ==
    \/ DecLock(t)
    \/ Fill(t) /\ ReadReturns
    \/ ReadStringReturn(t)
    \/ DecReturnErr(t)
    \/ DecLoad1(t)
    \/ DecLoad2(t)

\* Checked on the short streams: what matters is whether a complete line is
\* buffered when Close is called, not how long the stream is.
InitLive == Init /\ Len(input) <= MaxLiveLen

FairSpec == InitLive /\ [][Next]_vars /\ \A t \in Threads : WF_vars(DecodeRuns(t))

\* the intended pattern: one goroutine uses the Conn
NextSeq == \E t \in {1} : Step(t)

SpecSeq == Init /\ [][NextSeq]_vars

\* the Conn is obtained from Dial, then used by one goroutine
InitDial == Fresh /\ conn = NilConn

NextDial == Dial \/ NextSeq

SpecDial == InitDial /\ [][NextDial]_vars

\* ------------------------------------------------------- bookkeeping
IsWrite(e) == e.op \in {"Write", "Encode"}
\* the Decode calls that returned a message
Decoded == {c \in DOMAIN log : log[c].op = "Decode" /\ log[c].err = Nil}
\* the Decode calls that returned, in the order they were issued
RECURSIVE Sorted(_)
Sorted(S) ==
    IF S = {} THEN <<>>
    ELSE LET lo == CHOOSE x \in S : \A y \in S : x <= y
         IN  <<lo>> \o Sorted(S \ {lo})
DecodeCalls == Sorted({c \in DOMAIN log : log[c].op = "Decode"})

\* the payload of call c and the number of its bytes the transport took
Running(c) == CHOOSE t \in Threads : loc[t].call = c
PayloadOf(c) == IF c \in DOMAIN log THEN log[c].p ELSE loc[Running(c)].p
TakenOf(c) == IF c \in DOMAIN log THEN log[c].n ELSE loc[Running(c)].n
Block(c, n) == [j \in 1..n |-> [call |-> c, b |-> PayloadOf(c)[j]]]
RECURSIVE Blocks(_)
Blocks(cs) ==
    IF cs = <<>> THEN <<>>
    ELSE Block(Head(cs), TakenOf(Head(cs))) \o Blocks(Tail(cs))
RECURSIVE FullBlocks(_)
FullBlocks(cs) ==
    IF cs = <<>> THEN <<>>
    ELSE Block(Head(cs), Len(PayloadOf(Head(cs)))) \o FullBlocks(Tail(cs))

\* the complete frames of a byte stream, each with the offset it starts at
RECURSIVE Frames(_, _)
Frames(s, off) ==
    IF ~HasDelim(s) THEN <<>>
    ELSE LET i == FirstDelim(s)
         IN  <<[from |-> off, s |-> SubSeq(s, 1, i)]>>
             \o Frames(SubSeq(s, i + 1, Len(s)), off + i)

\* the stream positions a returned string header covers
Range(g) == (g.ptr.from + 1)..(g.ptr.from + g.len)

\* ----------------------------------------------------------------- C1
\* C1: the bytes the transport received are the bytes of the Write/Encode
\* calls in the order the calls took the encoder lock, each call's bytes in
\* one piece and never mixed with another call's; a call that returned
\* without error contributed its whole payload, so when no call failed the
\* stream is exactly the concatenation of the full payloads.
WritesNeverInterleave ==
    /\ wire = Blocks(wseq)
    /\ \A c \in DOMAIN log :
        IsWrite(log[c]) /\ log[c].err = Nil => log[c].n = Len(log[c].p)
    /\ (\A i \in 1..Len(wseq) : wseq[i] \in DOMAIN log /\ log[wseq[i]].err = Nil)
        => wire = FullBlocks(wseq)

\* two calls with non-empty payloads overlap: one is half-way through its
\* payload while the other waits for the lock, after a third has completed
ConcurrentWrites ==
    \E t, u \in Threads :
        /\ pc[t] = "w_write" /\ loc[t].n = 1
        /\ pc[u] = "w_lock" /\ Len(loc[u].p) = 2
        /\ \E c \in DOMAIN log : IsWrite(log[c]) /\ log[c].n = 2 /\ log[c].err = Nil

\* ----------------------------------------------------------------- C2
\* C2: no two Decode calls that returned a message returned the same line
\* or overlapping byte ranges of the stream.
DecodedLinesDistinct ==
    \A c1, c2 \in Decoded :
        c1 # c2 => Range(log[c1].got) \cap Range(log[c2].got) = {}

\* ----------------------------------------------------------------- C3
\* a string header denotes exactly one complete frame of the input
IsFrame(g) ==
    /\ g.len >= 1
    /\ g.ptr.from + g.len <= Len(input)
    /\ input[g.ptr.from + g.len] = delim
    /\ \A i \in Range(g) : i < g.ptr.from + g.len => input[i] # delim
    /\ g.ptr.from = 0 \/ input[g.ptr.from] = delim

\* C3: every Decode call that returned success returned the message parsed
\* from exactly one complete frame of the input stream.
DecodedCompleteFrame ==
    \A c \in Decoded :
        /\ IsFrame(log[c].got)
        /\ log[c].m = ParseMessage(SubSeq(input, log[c].got.ptr.from + 1,
                                          log[c].got.ptr.from + log[c].got.len))

\* ----------------------------------------------------------------- C4
\* C4: used by one goroutine, with no read failing and the connection
\* open, the k-th Decode call returns the message parsed from the k-th
\* line of the stream, for every k up to the number of complete lines.
SequentialInOrder ==
    faults = 0 /\ ~closed =>
        \A k \in 1..Len(DecodeCalls) :
            k <= Len(Frames(input, 0)) =>
                LET e == log[DecodeCalls[k]]
                    f == Frames(input, 0)[k]
                IN  /\ e.err = Nil
                    /\ e.m = ParseMessage(f.s)
                    /\ e.got.ptr.from = f.from

\* two lines were decoded by two sequential calls
TwoLinesDecoded ==
    /\ faults = 0 /\ ~closed
    /\ Len(DecodeCalls) >= 2
    /\ Len(Frames(input, 0)) >= 2
    /\ log[DecodeCalls[2]].err = Nil

\* ----------------------------------------------------------------- C5
\* C5: every Decode, Encode or Write call issued after Close returned the
\* closed-resource error and no message.
FailAfterClose ==
    \A c \in DOMAIN log :
        log[c].late /\ log[c].op \in {"Decode", "Encode", "Write"}
            => log[c].err = ErrClosed /\ log[c].m = NilMessage

\* ----------------------------------------------------------------- C6
\* C6: the transport's close is invoked at most once, and exactly once if
\* Close was called.
ClosedAtMostOnce ==
    /\ closeCalls <= 1
    /\ (\E c \in DOMAIN log : log[c].op = "Close") => closeCalls = 1

\* ----------------------------------------------------------------- C7
\* C7: every Decode call that is pending when Close is called (one blocked
\* in the transport read holding the decoder lock, the others waiting for
\* that lock) eventually returns, and returns an error.
PendingDecodesFail ==
    /\ (\E t \in Threads : loc[t].pend) ~> (\A t \in Threads : ~loc[t].pend)
    /\ [](\A c \in DOMAIN log : log[c].pend => log[c].err # Nil /\ log[c].m = NilMessage)

\* two pending Decode calls have returned the closed-resource error
TwoPendingReturned ==
    \E c1, c2 \in DOMAIN log :
        /\ c1 # c2
        /\ log[c1].pend /\ log[c1].err = ErrClosed
        /\ log[c2].pend /\ log[c2].err = ErrClosed

\* ----------------------------------------------------------------- C8
\* C8: a goroutine waiting for the encoder lock can take it whenever it is
\* free, and a write inside the transport can go on, whoever holds the
\* decoder lock; a goroutine waiting for the decoder lock can take it
\* whenever it is free, and a read that does not block can go on, whoever
\* holds the encoder lock.
LocksIndependent ==
    Alive => \A t \in Threads :
        /\ pc[t] = "w_lock" /\ ~encMu => ENABLED WLock(t)
        /\ pc[t] = "w_write" => ENABLED (WriteByte(t) \/ WriteDone(t) \/ WriteFail(t))
        /\ pc[t] = "d_lock" /\ ~decMu => ENABLED DecLock(t)
        /\ pc[t] = "d_read" /\ (~MustFill(buf, berr) \/ ReadOutcomes # {})
            => ENABLED (Fill(t) \/ ReadStringReturn(t))

\* a Decode is blocked in the transport read holding the decoder lock while
\* a Write is inside the transport holding the encoder lock
BothLocksHeld ==
    \E t, u \in Threads :
        /\ BlockedInRead(t) /\ ReadOutcomes = {} /\ decMu
        /\ pc[u] = "w_write" /\ loc[u].n = 1 /\ encMu

\* ----------------------------------------------------------------- C9
\* C9: a Decode call whose read failed before a delimiter was found
\* returned no message and the error of the read, unchanged; the failed
\* read was the last read of the call; and a call returns an error only so.
ReadErrorReturnedVerbatim ==
    \A c \in DOMAIN log :
        log[c].op = "Decode" =>
            /\ log[c].rserr # Nil =>
                /\ log[c].m = NilMessage
                /\ log[c].err = log[c].rserr
                /\ log[c].err \in {EOF, ErrClosed, ErrIO}
                /\ log[c].fills > 0 => log[c].last = log[c].rserr
            /\ log[c].rserr = Nil => log[c].err = Nil /\ log[c].m # NilMessage

\* a Decode call had read part of a line when the transport was closed, and
\* another Decode call met another read failure
ReadFailedMidLine ==
    \E c1, c2 \in DOMAIN log :
        /\ log[c1].op = "Decode" /\ log[c1].rserr = ErrClosed
        /\ Len(log[c1].rs.s) > 0 /\ log[c1].fills >= 2
        /\ log[c2].op = "Decode" /\ log[c2].rserr \in {EOF, ErrIO}

\* ---------------------------------------------------------------- C10
\* the Decode calls whose read met the end of the stream in the middle of
\* a line
MidLineEOF ==
    {c \in DOMAIN log :
        log[c].op = "Decode" /\ log[c].rserr = EOF /\ Len(log[c].rs.s) > 0}

\* C10 as claimed: the partial bytes are neither dropped (the call hands
\* them to its caller) nor accepted as a frame (the call reports the error).
PartialNeitherDroppedNorAccepted ==
    \A c \in MidLineEOF : log[c].m # NilMessage /\ log[c].err = EOF

\* C10: the Decode call that reads the partial bytes drops them: they
\* leave the read buffer, and the call returns no message and the
\* end-of-stream error.
PartialDropped ==
    \A c \in MidLineEOF :
        /\ log[c].m = NilMessage
        /\ log[c].err = EOF
        /\ BufFrom >= log[c].rs.from + Len(log[c].rs.s)

\* a Decode call met the end of the stream after a partial line
StreamEndedMidLine == MidLineEOF # {}

\* ---------------------------------------------------------------- C11
\* the bytes of call c the transport took, as they stand on the wire
OfCall(c, w) == IF w = <<>> THEN <<>> ELSE SelectSeq(w, LAMBDA e : e.call = c)
WireOf(c) == [i \in 1..Len(OfCall(c, wire)) |-> OfCall(c, wire)[i].b]

\* the Write calls with an empty byte sequence that returned
EmptyWrites == {c \in DOMAIN log : log[c].op = "Write" /\ log[c].p = <<>>}

\* C11 as claimed: a Write with an empty byte sequence returned success
\* with zero bytes written and put nothing on the wire, in whatever state
\* it was called.
EmptyWriteAlwaysSucceeds ==
    \A c \in EmptyWrites :
        log[c].err = Nil /\ log[c].n = 0 /\ WireOf(c) = <<>>

\* C11: a Write with an empty byte sequence wrote zero bytes and put
\* nothing on the wire; it returned success when the transport was open and
\* did not fail, and otherwise the transport's error.
EmptyWriteNoOp ==
    \A c \in EmptyWrites :
        /\ log[c].n = 0
        /\ WireOf(c) = <<>>
        /\ \/ log[c].err = Nil
           \/ log[c].err = ErrClosed /\ closed
           \/ log[c].err = ErrIO /\ faults > 0
        /\ ~closed /\ faults = 0 => log[c].err = Nil

\* one empty Write succeeded and another met the closed transport
EmptyWriteBothWays ==
    \E c1, c2 \in EmptyWrites :
        log[c1].err = Nil /\ log[c2].err = ErrClosed

\* ---------------------------------------------------------------- C12
EncodeCalls == {c \in DOMAIN log : log[c].op = "Encode"}
Occurrences(c, cs) == Cardinality({i \in 1..Len(cs) : cs[i] = c})

\* C12: every Encode(m) that returned entered the transport's write once,
\* with the serialized bytes of m and nothing else: what the transport took
\* is a prefix of m.Bytes() in one piece, and all of it when the write did
\* not fail.
OneWritePerEncode ==
    \A c \in EncodeCalls :
        /\ Occurrences(c, wseq) = 1
        /\ log[c].p = Bytes(log[c].msg)
        /\ log[c].n <= Len(log[c].p)
        /\ WireOf(c) = SubSeq(log[c].p, 1, log[c].n)
        /\ log[c].err = Nil => WireOf(c) = Bytes(log[c].msg)

\* an Encode wrote its whole message while another call's bytes were on
\* the wire
EncodeWroteMessage ==
    \E c \in EncodeCalls :
        /\ log[c].err = Nil
        /\ WireOf(c) = Bytes(log[c].msg)
        /\ Len(wire) > Len(WireOf(c))

\* ---------------------------------------------------------------- C13
\* C13: every Encode whose write stopped early, the transport having taken
\* fewer bytes than the serialized message, returned a non-nil error.
ShortWriteReported ==
    \A c \in EncodeCalls :
        Len(WireOf(c)) < Len(Bytes(log[c].msg)) => log[c].err # Nil

\* an Encode stopped after the first byte of its message
EncodeStoppedEarly ==
    \E c \in EncodeCalls : Len(WireOf(c)) = 1 /\ log[c].err # Nil

\* ---------------------------------------------------------------- C14
\* the calls that return in this step
Returning == DOMAIN log' \ DOMAIN log

\* C14: the Connection goes from OPEN to CLOSED only in a step of Close,
\* and once CLOSED it stays CLOSED in every step of Decode, Encode, Write
\* and Close.
ClosedIsTerminal ==
    [][/\ closed => closed'
       /\ closed' # closed =>
            /\ ~closed /\ closed'
            /\ \E c \in Returning : log'[c].op = "Close"]_vars

\* the Connection is CLOSED after a Close, a second Close and another call
\* that began on the closed Connection
CalledAfterClose ==
    /\ closed
    /\ \E c \in DOMAIN log : log[c].op = "Close" /\ log[c].late
    /\ \E c \in DOMAIN log : log[c].op # "Close" /\ log[c].late

\* ---------------------------------------------------------------- C15
\* C15: Dial invoked net.Dial once.  When the attempt failed, Dial returned
\* that error and the nil Conn, and nothing was called on a Conn; when it
\* succeeded, Dial returned no error and the Conn that NewConn builds over
\* the established transport: its Encoder's writer, its Decoder's reader
\* and the transport Close closes are that one transport.
DialOnce ==
    /\ attempts <= 1
    /\ attempts = 0 => conn = NilConn /\ ncalls = 0
    /\ attempts = 1 /\ dialErr # Nil =>
        /\ dialErr = ErrDial
        /\ conn = NilConn
        /\ ncalls = 0
    /\ attempts = 1 /\ dialErr = Nil =>
        /\ conn = NewConn(Rwc)
        /\ conn.writer = Rwc /\ conn.reader = Rwc /\ conn.conn = Rwc

\* Dial succeeded, and the Conn it returned was written to, read from and
\* closed
DialedConnUsed ==
    /\ attempts = 1
    /\ dialErr = Nil
    /\ conn = NewConn(Rwc)
    /\ wire # <<>>
    /\ Decoded # {}
    /\ closed

\* ---------------------------------------------------------------- C16
\* C16: in every reachable state a goroutine that can issue a call can
\* carry out Close, whoever holds the decoder lock or the encoder lock,
\* and Close leaves both locks as they were.
CloseNeverWaits ==
    \A t \in Threads :
        MayCall(t) => ENABLED (Close(t) /\ UNCHANGED <<decMu, encMu>>)

\* Close was carried out while a Decode was blocked in the read holding the
\* decoder lock and a Write was inside the transport's write holding the
\* encoder lock
ClosedUnderBothLocks ==
    /\ closed
    /\ decMu /\ encMu
    /\ \E u \in Threads : BlockedInRead(u) /\ loc[u].pend
    /\ \E w \in Threads : pc[w] = "w_write"

\* ---------------------------------------------------------------- C17
\* a Decode call is under way
DecodeInFlight == \E t \in Threads : pc[t] \in {"d_lock", "d_read", "d_chk", "d_ld"}

\* the Decode calls that returned the very line call c read
ReturnedLineOf(c) ==
    {d \in Decoded : /\ log[d].got = [ptr |-> log[c].rs, len |-> Len(log[c].rs.s)]
                     /\ log[d].m = ParseMessage(log[c].rs.s)}

\* C17: once the Decode calls have returned, every complete line that the
\* buffered read of some Decode call consumed is the result of exactly one
\* Decode call.
NoFrameLost ==
    ~DecodeInFlight =>
        \A c \in Decoded : Cardinality(ReturnedLineOf(c)) = 1

\* ---------------------------------------------------------------- C18
\* C18: a lock is held only by a call that is between its Lock and its
\* Unlock: the decoder lock by a Decode inside ReadString, the encoder lock
\* by a Write or Encode inside the transport's write.  No call that
\* returned, with or without an error, still holds a lock, and a call that
\* waits for a lock waits for a call that is under way.
LocksReleased ==
    /\ decMu => \E t \in Threads : pc[t] = "d_read"
    /\ encMu => \E t \in Threads : pc[t] = "w_write"

\* a Decode and a Write both failed, and a later call got the lock the
\* failed call had held
LockTakenAfterFailure ==
    /\ \E c \in DOMAIN log : log[c].op = "Decode" /\ log[c].err # Nil
    /\ \E c \in DOMAIN log : IsWrite(log[c]) /\ log[c].err # Nil
    /\ \E t \in Threads : pc[t] \in {"d_read", "w_write"}

\* ---------------------------------------------------------------- C19
\* a step of a Write or Encode call, and a step of a Decode call
WriteSide == \E t \in Threads : CallWrite(t) \/ CallEncode(t) \/ WriteStep(t)
ReadSide == \E t \in Threads : CallDecode(t) \/ DecodeStep(t)

\* C19: a step of Write or Encode leaves the decoder's read position, its
\* buffered bytes, its pending error and its line as they were; a step of
\* Decode leaves the written bytes and the open/closed state of the
\* transport as they were; the transport is closed only in a step of Close.
DirectionsApart ==
    [][/\ WriteSide => UNCHANGED <<rpos, buf, berr, line, decMu>>
       /\ ReadSide => UNCHANGED <<wire, closed, closeCalls, encMu>>
       /\ closed' # closed => \E c \in Returning : log'[c].op = "Close"]_vars

\* a Write or Encode put bytes on the wire, a Decode failed, and read
\* bytes are still buffered
BothDirectionsUsed ==
    /\ wire # <<>>
    /\ buf # <<>>
    /\ \E c \in DOMAIN log : log[c].op = "Decode" /\ log[c].err # Nil
    /\ \E c \in DOMAIN log : IsWrite(log[c]) /\ log[c].n > 0

====
